---- MODULE Spec2Model ----
(***************************************************************************)
(* Model of pkg/config/config.go: parseArguments and Get.                  *)
(*                                                                         *)
(* Strings that the code only compares with "" are modelled as TLA+        *)
(* strings.  Paths are modelled as sequences of one-token strings so that  *)
(* filepath.Clean and filepath.Join can be computed the way the library    *)
(* computes them; "/" is the separator, "." the dot, every other token is  *)
(* an ordinary character of a file name.                                   *)
(*                                                                         *)
(* The file named by configArg is modelled by the variable file: the       *)
(* content found at whichever path -c/-config (or its default) names.      *)
(***************************************************************************)
EXTENDS Integers, Sequences, FiniteSets, TLC

\* ---------------------------------------------------------------- bounds
MaxPathLen == 3

\* ---------------------------------------------------------------- inputs
PathChars == {"/", ".", "a"}

RECURSIVE PathsUpTo(_)
PathsUpTo(n) ==
    IF n = 0 THEN {<<>>}
    ELSE LET shorter == PathsUpTo(n - 1)
         IN  shorter \cup {Append(p, c) : p \in {q \in shorter : Len(q) = n - 1}, c \in PathChars}

AppDataPaths == PathsUpTo(MaxPathLen)
Manifests == {"", "site_default"}
URLs == {"", "https://repo.example.com"}
PackageURLs == {"", "https://pkgs.example.com"}
CatalogLists == {<<>>, <<"production">>}
ImportTargets == {"", "installer.msi"}
ProgramDataRoots == {<<>>, <<"/", "ProgramData">>}
YamlKeys == {"manifest", "url", "url_packages", "app_data_path"}

\* A yaml document: the keys it carries and their values.  A key that is
\* not in the document has no value (written here as the empty one).
Documents ==
    {d \in [keys : SUBSET YamlKeys, manifest : Manifests, url : URLs,
            url_packages : PackageURLs, app_data_path : AppDataPaths,
            verbose : BOOLEAN, debug : BOOLEAN, catalogs : CatalogLists] :
        /\ "manifest" \notin d.keys => d.manifest = ""
        /\ "url" \notin d.keys => d.url = ""
        /\ "url_packages" \notin d.keys => d.url_packages = ""
        /\ "app_data_path" \notin d.keys => d.app_data_path = <<>>}

EmptyDocument ==
    [keys |-> {}, manifest |-> "", url |-> "", url_packages |-> "",
     app_data_path |-> <<>>, verbose |-> FALSE, debug |-> FALSE, catalogs |-> <<>>]

\* What ioutil.ReadFile and yaml.Unmarshal can find at the configured path.
Files ==
    {[kind |-> "missing", doc |-> EmptyDocument],
     [kind |-> "malformed", doc |-> EmptyDocument]}
        \cup {[kind |-> "yaml", doc |-> d] : d \in Documents}

\* ------------------------------------------------ path/filepath (lexical)
RECURSIVE Backtrack(_, _, _)
Backtrack(out, w, dotdot) ==
    IF w > dotdot /\ out[w + 1] # "/"
    THEN Backtrack(out, w - 1, dotdot)
    ELSE SubSeq(out, 1, w)

RECURSIVE ElementEnd(_, _)
ElementEnd(path, r) ==
    IF r < Len(path) /\ path[r + 1] # "/" THEN ElementEnd(path, r + 1) ELSE r

RECURSIVE CleanLoop(_, _, _, _, _)
CleanLoop(path, r, out, dotdot, rooted) ==
    LET n == Len(path) IN
    IF r >= n THEN out
    ELSE IF path[r + 1] = "/"
        THEN CleanLoop(path, r + 1, out, dotdot, rooted)
    ELSE IF path[r + 1] = "." /\ (r + 1 = n \/ path[r + 2] = "/")
        THEN CleanLoop(path, r + 1, out, dotdot, rooted)
    ELSE IF path[r + 1] = "." /\ path[r + 2] = "." /\ (r + 2 = n \/ path[r + 3] = "/")
        THEN IF Len(out) > dotdot
             THEN CleanLoop(path, r + 2, Backtrack(out, Len(out) - 1, dotdot), dotdot, rooted)
             ELSE IF ~rooted
             THEN LET o2 == (IF Len(out) > 0 THEN Append(out, "/") ELSE out) \o <<".", ".">>
                  IN  CleanLoop(path, r + 2, o2, Len(o2), rooted)
             ELSE CleanLoop(path, r + 2, out, dotdot, rooted)
    ELSE LET o1 == IF (rooted /\ Len(out) # 1) \/ (~rooted /\ Len(out) # 0)
                   THEN Append(out, "/") ELSE out
             e  == ElementEnd(path, r)
         IN  CleanLoop(path, e, o1 \o SubSeq(path, r + 1, e), dotdot, rooted)

Clean(path) ==
    IF path = <<>> THEN <<".">>
    ELSE LET rooted == path[1] = "/"
             out == IF rooted
                    THEN CleanLoop(path, 1, <<"/">>, 1, TRUE)
                    ELSE CleanLoop(path, 0, <<>>, 0, FALSE)
         IN  IF out = <<>> THEN <<".">> ELSE out

\* filepath.Join of two elements: empty elements before the first non-empty
\* one are dropped, the rest is joined with the separator and cleaned.
Join(a, b) ==
    IF a # <<>> THEN Clean(a \o <<"/">> \o b)
    ELSE IF b # <<>> THEN Clean(b)
    ELSE <<>>

\* ------------------------------------------------------------------ state
VARIABLES
    file,         \* what the file system holds at the configuration path
    programData,  \* value of the ProgramData environment variable
    flags,        \* the package-level flag variables (helpArg, debugArg, ...)
    pc,           \* position of the process inside Get / parseArguments
    verbose,      \* Get's local: CLI verbose override
    debug,        \* Get's local: CLI debug override
    err,          \* Get's local err
    cfg,          \* Get's local cfg
    stdout,       \* lines printed so far, as <<text, argument>> pairs
    exitCode,     \* code handed to os.Exit; -1 while the process runs
    reportItems,  \* report.Items, as a set of <<key, value>> entries
    publishes,    \* number of times the block writing report.Items has run
    steps         \* the steps of Get executed so far, in order

vars == <<file, programData, flags, pc, verbose, debug, err, cfg, stdout,
          exitCode, reportItems, publishes, steps>>

\* Defaults of the flag variables (aboutDefault, debugDefault, ...).
FlagDefaults ==
    [aboutArg |-> FALSE, debugArg |-> FALSE, buildArg |-> FALSE, importArg |-> "",
     helpArg |-> FALSE, verboseArg |-> FALSE, versionArg |-> FALSE]

FlagValues ==
    [aboutArg : BOOLEAN, debugArg : BOOLEAN, buildArg : BOOLEAN,
     importArg : ImportTargets, helpArg : BOOLEAN, verboseArg : BOOLEAN,
     versionArg : BOOLEAN]

\* Zero value of the Configuration struct (fields no step of Get reads or
\* writes - credentials, TLS material, repo path - are left out).
Configuration ==
    [AppDataPath |-> <<>>, BuildArg |-> FALSE, CachePath |-> <<>>, Catalogs |-> <<>>,
     Debug |-> FALSE, ImportArg |-> "", Manifest |-> "", URL |-> "",
     URLPackages |-> "", Verbose |-> FALSE]

Init ==
    /\ file \in Files
    /\ programData \in ProgramDataRoots
    /\ flags = FlagDefaults
    /\ pc = "parseArguments"
    /\ verbose = FALSE
    /\ debug = FALSE
    /\ err = "nil"
    /\ cfg = Configuration
    /\ stdout = <<>>
    /\ exitCode = -1
    /\ reportItems = {}
    /\ publishes = 0
    /\ steps = <<>>

\* os.Exit(code): the process stops where it is.
osExit(code) ==
    /\ pc' = "exited"
    /\ exitCode' = code

\* ------------------------------------------------------------- operations
\* parseArguments with the exit after the about text left out.
parseArgumentsAboutReturns ==
    /\ pc = "parseArguments"
    /\ \E parsed \in FlagValues :
        /\ flags' = parsed
        /\ IF parsed.helpArg
           THEN /\ stdout' = stdout \o <<<<"version", "">>, <<"usage", "">>>>
                /\ osExit(0)
                /\ UNCHANGED <<verbose, debug>>
           ELSE IF parsed.versionArg
           THEN /\ stdout' = Append(stdout, <<"version", "">>)
                /\ osExit(0)
                /\ UNCHANGED <<verbose, debug>>
           ELSE /\ stdout' = IF parsed.aboutArg
                             THEN Append(stdout, <<"version full", "">>) ELSE stdout
                /\ verbose' = parsed.verboseArg
                /\ debug' = parsed.debugArg
                /\ pc' = "ReadFile"
                /\ UNCHANGED exitCode
    /\ UNCHANGED <<file, programData, err, cfg, reportItems, publishes, steps>>

\* parseArguments, called first thing by Get.  flag.Parse sets the flag
\* variables from the command line; command lines are those made of the
\* flags that init() defines.
parseArguments ==
    /\ pc = "parseArguments"
    /\ \E parsed \in FlagValues :
        /\ flags' = parsed
        /\ IF parsed.helpArg
           THEN /\ stdout' = stdout \o <<<<"version", "">>, <<"usage", "">>>>
                /\ osExit(0)
                /\ UNCHANGED <<verbose, debug>>
           ELSE IF parsed.versionArg
           THEN /\ stdout' = Append(stdout, <<"version", "">>)
                /\ osExit(0)
                /\ UNCHANGED <<verbose, debug>>
           ELSE IF parsed.aboutArg
           THEN /\ stdout' = Append(stdout, <<"version full", "">>)
                /\ osExit(0)
                /\ UNCHANGED <<verbose, debug>>
           ELSE /\ verbose' = parsed.verboseArg
                /\ debug' = parsed.debugArg
                /\ pc' = "ReadFile"
                /\ UNCHANGED <<stdout, exitCode>>
    /\ UNCHANGED <<file, programData, err, cfg, reportItems, publishes, steps>>

\* configFile, err := ioutil.ReadFile(configPath)
ReadFile ==
    /\ pc = "ReadFile"
    /\ steps' = Append(steps, "ReadFile")
    /\ IF file.kind = "missing"
       THEN /\ err' = "read error"
            /\ stdout' = Append(stdout, <<"Unable to read configuration file: ", "read error">>)
            /\ osExit(1)
       ELSE /\ err' = "nil"
            /\ pc' = "Unmarshal"
            /\ UNCHANGED <<stdout, exitCode>>
    /\ UNCHANGED <<file, programData, flags, verbose, debug, cfg, reportItems, publishes>>

\* yaml.Unmarshal into the struct: a key of the document sets its field,
\* a field whose key is missing keeps its zero value.
Unmarshal(doc, into) ==
    [into EXCEPT
        !.Manifest = IF "manifest" \in doc.keys THEN doc.manifest ELSE @,
        !.URL = IF "url" \in doc.keys THEN doc.url ELSE @,
        !.URLPackages = IF "url_packages" \in doc.keys THEN doc.url_packages ELSE @,
        !.AppDataPath = IF "app_data_path" \in doc.keys THEN doc.app_data_path ELSE @,
        !.Verbose = doc.verbose,
        !.Debug = doc.debug,
        !.Catalogs = doc.catalogs]

\* The deserialization step with the exit on a yaml error left out.
ParseYamlNoExit ==
    /\ pc = "Unmarshal"
    /\ steps' = Append(steps, "Unmarshal")
    /\ IF file.kind = "malformed"
       THEN /\ err' = "yaml error"
            /\ stdout' = Append(stdout, <<"Unable to parse yaml configuration: ", "yaml error">>)
            /\ UNCHANGED cfg
       ELSE /\ err' = "nil"
            /\ cfg' = Unmarshal(file.doc, cfg)
            /\ UNCHANGED stdout
    /\ pc' = "ValidateManifest"
    /\ UNCHANGED <<file, programData, flags, verbose, debug, exitCode, reportItems, publishes>>

\* err = yaml.Unmarshal(configFile, &cfg)
ParseYaml ==
    /\ pc = "Unmarshal"
    /\ steps' = Append(steps, "Unmarshal")
    /\ IF file.kind = "malformed"
       THEN /\ err' = "yaml error"
            /\ stdout' = Append(stdout, <<"Unable to parse yaml configuration: ", "yaml error">>)
            /\ osExit(1)
            /\ UNCHANGED cfg
       ELSE /\ err' = "nil"
            /\ cfg' = Unmarshal(file.doc, cfg)
            /\ pc' = "ValidateManifest"
            /\ UNCHANGED <<stdout, exitCode>>
    /\ UNCHANGED <<file, programData, flags, verbose, debug, reportItems, publishes>>

\* The manifest check printing the text of the url check.
ValidateManifestWrongText ==
    /\ pc = "ValidateManifest"
    /\ steps' = Append(steps, "ValidateManifest")
    /\ IF cfg.Manifest = ""
       THEN /\ stdout' = Append(stdout, <<"Invalid configuration - URL: ", err>>)
            /\ osExit(1)
       ELSE /\ pc' = "ValidateURL"
            /\ UNCHANGED <<stdout, exitCode>>
    /\ UNCHANGED <<file, programData, flags, verbose, debug, err, cfg, reportItems, publishes>>

\* The manifest check with the exit left out.
ValidateManifestNoExit ==
    /\ pc = "ValidateManifest"
    /\ steps' = Append(steps, "ValidateManifest")
    /\ stdout' = IF cfg.Manifest = ""
                 THEN Append(stdout, <<"Invalid configuration - Manifest: ", err>>)
                 ELSE stdout
    /\ pc' = "ValidateURL"
    /\ UNCHANGED <<file, programData, flags, verbose, debug, err, cfg, exitCode,
                   reportItems, publishes>>

\* if cfg.Manifest == "" { ...; os.Exit(1) }
ValidateManifest ==
    /\ pc = "ValidateManifest"
    /\ steps' = Append(steps, "ValidateManifest")
    /\ IF cfg.Manifest = ""
       THEN /\ stdout' = Append(stdout, <<"Invalid configuration - Manifest: ", err>>)
            /\ osExit(1)
       ELSE /\ pc' = "ValidateURL"
            /\ UNCHANGED <<stdout, exitCode>>
    /\ UNCHANGED <<file, programData, flags, verbose, debug, err, cfg, reportItems, publishes>>

\* The url check left out.
ValidateURLSkipped ==
    /\ pc = "ValidateURL"
    /\ steps' = Append(steps, "ValidateURL")
    /\ pc' = "Backfill"
    /\ UNCHANGED <<file, programData, flags, verbose, debug, err, cfg, stdout, exitCode,
                   reportItems, publishes>>

\* The url check writing the report before it looks at the url.
ValidateURLPublishing ==
    /\ pc = "ValidateURL"
    /\ steps' = Append(steps, "ValidateURL")
    /\ reportItems' = {<<"Manifest", <<cfg.Manifest>>>>, <<"Catalog", cfg.Catalogs>>}
    /\ IF cfg.URL = ""
       THEN /\ stdout' = Append(stdout, <<"Invalid configuration - URL: ", err>>)
            /\ osExit(1)
       ELSE /\ pc' = "Backfill"
            /\ UNCHANGED <<stdout, exitCode>>
    /\ UNCHANGED <<file, programData, flags, verbose, debug, err, cfg, publishes>>

\* if cfg.URL == "" { ...; os.Exit(1) }
ValidateURL ==
    /\ pc = "ValidateURL"
    /\ steps' = Append(steps, "ValidateURL")
    /\ IF cfg.URL = ""
       THEN /\ stdout' = Append(stdout, <<"Invalid configuration - URL: ", err>>)
            /\ osExit(1)
       ELSE /\ pc' = "Backfill"
            /\ UNCHANGED <<stdout, exitCode>>
    /\ UNCHANGED <<file, programData, flags, verbose, debug, err, cfg, reportItems, publishes>>

\* The package url always taken from the repo url.
BackfillURLPackagesAlways(c) ==
    [c EXCEPT !.URLPackages = c.URL]

\* If URLPackages wasn't provided, use the repo URL
BackfillURLPackages(c) ==
    IF c.URLPackages = "" THEN [c EXCEPT !.URLPackages = c.URL] ELSE c

\* The application-data path kept as the file gives it.
BackfillAppDataPathNoClean(c, env) ==
    IF c.AppDataPath = <<>>
    THEN [c EXCEPT !.AppDataPath = Join(env, <<"gorilla", "/">>)]
    ELSE c

\* If AppDataPath wasn't provided, configure a default, else clean it
BackfillAppDataPath(c, env) ==
    IF c.AppDataPath = <<>>
    THEN [c EXCEPT !.AppDataPath = Join(env, <<"gorilla", "/">>)]
    ELSE [c EXCEPT !.AppDataPath = Clean(c.AppDataPath)]

\* Set the verbosity
MergeVerbose(c, v) ==
    IF v /\ ~c.Verbose THEN [c EXCEPT !.Verbose = TRUE] ELSE c

\* Set the debug and verbose
MergeDebug(c, d) ==
    IF d /\ ~c.Debug THEN [c EXCEPT !.Debug = TRUE, !.Verbose = TRUE] ELSE c

\* Set build and import flags
SetActionFlags(c, f) ==
    [c EXCEPT !.BuildArg = f.buildArg, !.ImportArg = f.importArg]

\* Set the cache path
SetCachePath(c) ==
    [c EXCEPT !.CachePath = Join(c.AppDataPath, <<"cache">>)]

\* The straight-line part of Get between the URL check and the report.
Backfill ==
    /\ pc = "Backfill"
    /\ steps' = Append(steps, "Backfill")
    /\ cfg' = SetCachePath(SetActionFlags(MergeDebug(MergeVerbose(
                BackfillAppDataPath(BackfillURLPackages(cfg), programData),
                verbose), debug), flags))
    /\ pc' = "Publish"
    /\ UNCHANGED <<file, programData, flags, verbose, debug, err, stdout, exitCode,
                   reportItems, publishes>>

\* m[key] = value on a map kept as a set of <<key, value>> entries (every
\* value is a sequence: the manifest name is stored as a one-element one)
MapSet(m, key, value) ==
    {e \in m : e[1] # key} \cup {<<key, value>>}

\* Add to GorillaReport
Publish ==
    /\ pc = "Publish"
    /\ steps' = Append(steps, "Publish")
    /\ reportItems' = MapSet(MapSet(reportItems, "Manifest", <<cfg.Manifest>>),
                             "Catalog", cfg.Catalogs)
    /\ publishes' = publishes + 1
    /\ pc' = "Return"
    /\ UNCHANGED <<file, programData, flags, verbose, debug, err, cfg, stdout, exitCode>>

\* return cfg
Return ==
    /\ pc = "Return"
    /\ steps' = Append(steps, "Return")
    /\ pc' = "returned"
    /\ UNCHANGED <<file, programData, flags, verbose, debug, err, cfg, stdout, exitCode,
                   reportItems, publishes>>

Next ==
    \/ parseArguments
    \/ ReadFile
    \/ ParseYaml
    \/ ValidateManifest
    \/ ValidateURL
    \/ Backfill
    \/ Publish
    \/ Return

Spec == Init /\ [][Next]_vars

TypeOK ==
    /\ pc \in {"parseArguments", "ReadFile", "Unmarshal", "ValidateManifest",
               "ValidateURL", "Backfill", "Publish", "Return", "returned", "exited"}
    /\ exitCode \in {-1, 0, 1}
    /\ publishes \in 0..1

\* ------------------------------------------------------------ properties
Pipeline ==
    <<"ReadFile", "Unmarshal", "ValidateManifest", "ValidateURL", "Backfill",
      "Publish", "Return">>

Ran(step) == \E i \in 1..Len(steps) : steps[i] = step

InformationalFlag == flags.helpArg \/ flags.versionArg \/ flags.aboutArg

ManifestDiagnostic == <<"Invalid configuration - Manifest: ", "nil">>
URLDiagnostic == <<"Invalid configuration - URL: ", "nil">>

\* C1: whenever Get returns a configuration whose Debug is true, its Verbose
\* is true as well, for every combination of the file's verbose and debug
\* and the CLI verbose and debug overrides.
C1_DebugImpliesVerbose ==
    pc = "returned" => (cfg.Debug => cfg.Verbose)

\* C2: Get returns a configuration only when the file was read, its content
\* deserialized, and manifest and url are both non-empty; a step of Get that
\* finds the file unreadable, the content malformed, the manifest empty or
\* the url empty ends the process with exit code 1.
C2_NoPartialConfiguration ==
    /\ pc = "returned" =>
          /\ file.kind = "yaml"
          /\ file.doc.manifest # "" /\ file.doc.url # ""
          /\ cfg.Manifest # "" /\ cfg.URL # ""
    /\ (Ran("ReadFile") /\ file.kind = "missing") => (pc = "exited" /\ exitCode = 1)
    /\ (Ran("Unmarshal") /\ file.kind = "malformed") => (pc = "exited" /\ exitCode = 1)
    /\ (Ran("ValidateManifest") /\ cfg.Manifest = "") => (pc = "exited" /\ exitCode = 1)
    /\ (Ran("ValidateURL") /\ cfg.URL = "") => (pc = "exited" /\ exitCode = 1)

C2_Witness ==
    /\ pc = "exited" /\ exitCode = 1
    /\ Ran("ValidateURL")
    /\ file.kind = "yaml" /\ file.doc.manifest # "" /\ "url" \notin file.doc.keys

\* C3: report.Items is written exactly once on a successful Get, after the
\* manifest and url checks have passed, with the keys Manifest and Catalog;
\* on every run that ends in an exit it is left as it was.
C3_ReportWrittenOnceOnSuccess ==
    /\ publishes <= 1
    /\ pc = "returned" =>
          /\ publishes = 1
          /\ reportItems = {<<"Manifest", <<cfg.Manifest>>>>, <<"Catalog", cfg.Catalogs>>}
    /\ pc = "exited" => (publishes = 0 /\ reportItems = {})
    /\ (publishes > 0 \/ reportItems # {}) =>
          /\ Len(steps) >= 6
          /\ SubSeq(steps, 1, 6) = SubSeq(Pipeline, 1, 6)
          /\ cfg.Manifest # "" /\ cfg.URL # ""

C3_Witness ==
    /\ pc = "returned"
    /\ publishes = 1
    /\ <<"Catalog", <<"production">>>> \in reportItems

\* C4: the steps of Get run in the order read file, deserialize, validate
\* manifest, validate url, backfill/merge, publish, return, and the step that
\* fails is the last one to run: an unreadable file exits 1 before
\* deserialization, a malformed file exits 1 before either validation.
C4_FixedOrderFailFast ==
    /\ Len(steps) <= Len(Pipeline)
    /\ steps = SubSeq(Pipeline, 1, Len(steps))
    /\ (pc = "exited" /\ steps # <<>>) => exitCode = 1
    /\ (Ran("ReadFile") /\ file.kind = "missing") =>
          (steps = <<"ReadFile">> /\ exitCode = 1)
    /\ (Ran("Unmarshal") /\ file.kind = "malformed") =>
          (steps = <<"ReadFile", "Unmarshal">> /\ exitCode = 1)
    /\ (Ran("ValidateManifest") /\ cfg.Manifest = "") =>
          (steps = SubSeq(Pipeline, 1, 3) /\ exitCode = 1)
    /\ (Ran("ValidateURL") /\ cfg.URL = "") =>
          (steps = SubSeq(Pipeline, 1, 4) /\ exitCode = 1)

C4_Witness ==
    /\ pc = "exited" /\ exitCode = 1
    /\ file.kind = "malformed"
    /\ steps = <<"ReadFile", "Unmarshal">>

\* C5: with a help, version or about flag the parser prints the matching
\* text and the process ends with exit code 0 before the file is read,
\* validated or reported, also when the file is missing or malformed.
C5_InformationalFlagsExitZero ==
    (pc # "parseArguments" /\ InformationalFlag) =>
        /\ pc = "exited" /\ exitCode = 0
        /\ steps = <<>>
        /\ cfg = Configuration /\ err = "nil"
        /\ publishes = 0 /\ reportItems = {}
        /\ stdout = IF flags.helpArg THEN <<<<"version", "">>, <<"usage", "">>>>
                    ELSE IF flags.versionArg THEN <<<<"version", "">>>>
                    ELSE <<<<"version full", "">>>>

C5_Witness ==
    /\ pc = "exited" /\ exitCode = 0
    /\ flags.aboutArg /\ ~flags.helpArg /\ ~flags.versionArg
    /\ file.kind = "missing"

\* C6: a deserialized document with an empty or missing manifest ends the
\* process with exit code 1 and the one diagnostic naming Manifest; one with
\* a manifest and an empty or missing url ends it with exit code 1 and the
\* one diagnostic naming URL; no read or yaml diagnostic is printed there.
C6_DiagnosticNamesField ==
    /\ (file.kind = "yaml" /\ Ran("ValidateManifest") /\ file.doc.manifest = "") =>
          /\ pc = "exited" /\ exitCode = 1
          /\ stdout = <<ManifestDiagnostic>>
    /\ (file.kind = "yaml" /\ Ran("ValidateURL") /\ file.doc.manifest # ""
            /\ file.doc.url = "") =>
          /\ pc = "exited" /\ exitCode = 1
          /\ stdout = <<URLDiagnostic>>

C6_Witness ==
    /\ pc = "exited" /\ exitCode = 1
    /\ file.kind = "yaml" /\ "manifest" \notin file.doc.keys
    /\ stdout = <<ManifestDiagnostic>>

\* C7: on a successful Get, URLPackages is the returned URL when url_packages
\* is absent or empty and the file's value otherwise; it is never empty, and
\* URL is the file's url.
C7_URLPackagesBackfill ==
    pc = "returned" =>
        /\ file.doc.url_packages = "" => cfg.URLPackages = cfg.URL
        /\ file.doc.url_packages # "" => cfg.URLPackages = file.doc.url_packages
        /\ cfg.URLPackages # ""
        /\ cfg.URL = file.doc.url

C7_Witness ==
    /\ pc = "returned"
    /\ "url_packages" \notin file.doc.keys
    /\ cfg.URLPackages = "https://repo.example.com"

\* C8: on a successful Get, AppDataPath is ProgramData joined with gorilla
\* when app_data_path is absent or empty and the cleaned file value
\* otherwise; it is never empty, and CachePath is that final AppDataPath
\* joined with cache.
C8_AppDataPathAndCache ==
    pc = "returned" =>
        /\ file.doc.app_data_path = <<>> =>
              cfg.AppDataPath = Join(programData, <<"gorilla">>)
        /\ file.doc.app_data_path # <<>> =>
              cfg.AppDataPath = Clean(file.doc.app_data_path)
        /\ cfg.AppDataPath # <<>>
        /\ cfg.CachePath = Join(cfg.AppDataPath, <<"cache">>)

C8_Witness ==
    /\ pc = "returned"
    /\ file.doc.app_data_path = <<"a", "/">>
    /\ cfg.AppDataPath = <<"a">>
    /\ cfg.CachePath = <<"a", "/", "cache">>

\* C9: on a successful Get, Debug is file debug OR CLI debug, Verbose is true
\* whenever file verbose or CLI verbose is, a CLI debug override gives
\* Verbose true, and with none of the four set both are false.
C9_OverridesOnlyRaise ==
    pc = "returned" =>
        /\ cfg.Debug = (file.doc.debug \/ flags.debugArg)
        /\ (file.doc.verbose \/ flags.verboseArg) => cfg.Verbose
        /\ flags.debugArg => cfg.Verbose
        /\ (~file.doc.verbose /\ ~file.doc.debug /\ ~flags.verboseArg /\ ~flags.debugArg)
              => (~cfg.Verbose /\ ~cfg.Debug)

\* C10: manifest is checked before url and the first failure stops the run:
\* with both empty exactly one diagnostic is printed, it names Manifest, and
\* the url check is not reached; the URL diagnostic is printed only on runs
\* whose manifest is non-empty.
C10_ManifestCheckedFirst ==
    /\ (Ran("ValidateManifest") /\ file.doc.manifest = "" /\ file.doc.url = "") =>
          /\ Len(stdout) = 1
          /\ stdout[1] = ManifestDiagnostic
          /\ ~Ran("ValidateURL")
    /\ (\E i \in 1..Len(stdout) : stdout[i][1] = URLDiagnostic[1]) =>
          (cfg.Manifest # "" /\ file.doc.manifest # "")

C10_Witness ==
    /\ pc = "exited"
    /\ file.kind = "yaml" /\ file.doc.manifest = "" /\ file.doc.url = ""
    /\ steps = SubSeq(Pipeline, 1, 3)
    /\ Len(stdout) = 1
====
